---- MODULE Spec2Model ----
(***************************************************************************)
(* The MySQL session backend of pkg/services/session/mysql.go: MysqlStore  *)
(* (an in-memory map with a dirty flag, written back by Release) and       *)
(* MysqlProvider (Read, Exist, Destory, Regenerate, GC) over the session   *)
(* table.  Every SQL statement is one atomic step; a handler that issues   *)
(* several statements is a sequence of steps of one request (a process).   *)
(***************************************************************************)
EXTENDS Integers, Sequences, FiniteSets, TLC

(* ------------------------------ bounds -------------------------------- *)

\* The clock stops at MaxTime.
MaxTime == 61
\* StoreSpec records at most MaxOps mutating calls per store.
MaxOps == 3

\* Requests (goroutines); each holds at most one store, in slot store[p].
Procs == {"p1", "p2"}
\* Session identifiers: those the requests name in their calls, and one more
\* whose row no call names.
ArgSids == {"s1", "s2"}
Sids == ArgSids \cup {"s3"}
\* Session keys, in the order the encoder writes them.
KeyOrder == <<"a", "b">>
Keys == {KeyOrder[i] : i \in DOMAIN KeyOrder}
\* A value that gob cannot encode (a channel, a func).
Unencodable == "chan"
Values == {"x", "y", Unencodable}
\* The clock advances by these amounts: the grace window and one more.
TickSteps == {60, 61}
\* The expiry durations Init may be given.
ExpireChoices == {60, 61}
\* What the requests of Spec and SeqSpec store: a value, and one that gob
\* cannot encode.  StoreSpec sets every key to every value.
SetInputs == {<<"a", "x">>, <<"a", Unencodable>>}

(* --------------------------- program constants ------------------------ *)

\* Release: (s.expiry+60) >= newExpiry
GraceSeconds == 60

(* ------------------------------- maps --------------------------------- *)

\* make(map[interface{}]interface{})
EmptyMap == << >>
\* What s.data[key] yields for a missing key.
Nil == "nil"

MapSet(m, key, val) ==
    [k \in DOMAIN m \cup {key} |-> IF k = key THEN val ELSE m[k]]

MapDelete(m, key) == [k \in DOMAIN m \ {key} |-> m[k]]

MapGet(m, key) == IF key \in DOMAIN m THEN m[key] ELSE Nil

\* All maps over Keys with the given values.
MapsOver(vals) == UNION {[ks -> vals] : ks \in SUBSET Keys}

(* ------------------------------ encoding ------------------------------ *)

\* A blob is a sequence of strings: "" is << >>; an encoded map is a header
\* followed by key, value, key, value ...
GobHeader == "gob"
EmptyBlob == << >>

RECURSIVE EncodePairs(_, _)
EncodePairs(m, ks) ==
    IF ks = << >> THEN << >>
    ELSE (IF Head(ks) \in DOMAIN m THEN <<Head(ks), m[Head(ks)]>> ELSE << >>)
         \o EncodePairs(m, Tail(ks))

\* session.EncodeGob: fails on a value gob cannot encode; the encoding of the
\* empty map is not the empty blob.
EncodeGob(m) ==
    IF \E k \in DOMAIN m : m[k] = Unencodable
    THEN [err |-> "encode", data |-> EmptyBlob]
    ELSE [err |-> "", data |-> <<GobHeader>> \o EncodePairs(m, KeyOrder)]

RECURSIVE DecodePairs(_, _)
DecodePairs(s, m) ==
    IF Len(s) < 2 THEN m
    ELSE DecodePairs(SubSeq(s, 3, Len(s)), MapSet(m, s[1], s[2]))

\* session.DecodeGob: fails on bytes that are no gob stream of a map.
DecodeGob(blob) ==
    IF Len(blob) >= 1 /\ blob[1] = GobHeader /\ (Len(blob) - 1) % 2 = 0
    THEN [err |-> "", kv |-> DecodePairs(Tail(blob), EmptyMap)]
    ELSE [err |-> "decode", kv |-> EmptyMap]

\* Bytes that do not decode.
CorruptBlob == <<"junk">>

(* ------------------------------ the table ----------------------------- *)

\* The session table: for each key the rows stored under it, oldest first.
Row(data, expiry) == [data |-> data, expiry |-> expiry]
EmptyTable == [k \in Sids |-> << >>]

KeyIsFree_NoConstraint(t, sid) == TRUE

\* The schema's PRIMARY KEY(`key`): a row may be stored under sid.
KeyIsFree(t, sid) == t[sid] = << >>

\* QueryRow("SELECT data,expiry FROM session WHERE `key`=?").Scan
SelectRow(t, sid, fault) ==
    IF fault THEN [err |-> "db", row |-> Row(EmptyBlob, 0)]
    ELSE IF t[sid] = << >> THEN [err |-> "norows", row |-> Row(EmptyBlob, 0)]
    ELSE [err |-> "", row |-> t[sid][1]]

\* Exec("INSERT INTO session(`key`,data,expiry) VALUES(?,?,?)")
ExecInsert(t, sid, data, expiry, fault) ==
    IF fault THEN [err |-> "db", table |-> t]
    ELSE IF ~KeyIsFree(t, sid) THEN [err |-> "duplicate", table |-> t]
    ELSE [err |-> "", table |-> [t EXCEPT ![sid] = Append(@, Row(data, expiry))]]

ExecUpdate_FirstWins(t, sid, data, expiry, fault) ==
    IF fault THEN [err |-> "db", table |-> t]
    ELSE [err |-> "",
          table |-> [t EXCEPT ![sid] =
                        [i \in DOMAIN @ |-> IF @[i].data = EmptyBlob
                                            THEN Row(data, expiry) ELSE @[i]]]]

ExecUpdate_Upserts(t, sid, data, expiry, fault) ==
    IF fault THEN [err |-> "db", table |-> t]
    ELSE [err |-> "", table |-> [t EXCEPT ![sid] = <<Row(data, expiry)>>]]

\* Exec("UPDATE session SET data=?, expiry=? WHERE `key`=?"): no row is no error.
ExecUpdate(t, sid, data, expiry, fault) ==
    IF fault THEN [err |-> "db", table |-> t]
    ELSE [err |-> "",
          table |-> [t EXCEPT ![sid] = [i \in DOMAIN @ |-> Row(data, expiry)]]]

ExecRename_KeepsOld(t, oldsid, sid, fault) ==
    IF fault THEN [err |-> "db", table |-> t]
    ELSE [err |-> "", table |-> [t EXCEPT ![sid] = @ \o t[oldsid]]]

\* Exec("UPDATE session SET `key`=? WHERE `key`=?", sid, oldsid)
ExecRename(t, oldsid, sid, fault) ==
    IF fault THEN [err |-> "db", table |-> t]
    ELSE IF oldsid = sid \/ t[oldsid] = << >> THEN [err |-> "", table |-> t]
    ELSE IF ~KeyIsFree(t, sid) THEN [err |-> "duplicate", table |-> t]
    ELSE [err |-> "",
          table |-> [t EXCEPT ![sid] = @ \o t[oldsid], ![oldsid] = << >>]]

\* Exec("DELETE FROM session WHERE `key`=?")
ExecDelete(t, sid, fault) ==
    IF fault THEN [err |-> "db", table |-> t]
    ELSE [err |-> "", table |-> [t EXCEPT ![sid] = << >>]]

Expired_Strict(row, expireSeconds, t) == row.expiry + expireSeconds < t

\* The WHERE clause of GC's statement: expiry + ? <= UNIX_TIMESTAMP(NOW())
Expired(row, expireSeconds, t) == row.expiry + expireSeconds <= t

\* Exec("DELETE FROM session WHERE  expiry + ? <= UNIX_TIMESTAMP(NOW())")
ExecDeleteExpired(t, expireSeconds, tnow, fault) ==
    IF fault THEN [err |-> "db", table |-> t]
    ELSE [err |-> "",
          table |-> [k \in Sids |->
                       SelectSeq(t[k], LAMBDA r : ~Expired(r, expireSeconds, tnow))]]

(* ------------------------------ the state ----------------------------- *)

VARIABLES
    now,      \* time.Now().Unix() and UNIX_TIMESTAMP(NOW())
    expire,   \* MysqlProvider.expire
    table,    \* the session table
    store,    \* store[p]: the MysqlStore request p last obtained
    pc,       \* pc[p]: where request p stands in the handler it runs
    loc,      \* loc[p]: the locals of that handler
    last,     \* the call that returned in the step leading here
    pre,      \* the table and the stores as the running call found them (SeqSpec)
    oplog     \* oplog[s]: the mutating calls made on store s (StoreSpec)

vars == <<now, expire, table, store, pc, loc, last, pre, oplog>>

NoStore ==
    [live |-> FALSE, sid |-> "", data |-> EmptyMap, expiry |-> 0, dirty |-> FALSE]

\* NewMysqlStore(c, sid, kv, expiry)
NewMysqlStore(sid, kv, expiry) ==
    [live |-> TRUE, sid |-> sid, data |-> kv, expiry |-> expiry, dirty |-> FALSE]

IdleLoc ==
    [op |-> "", s |-> "", sid |-> "", oldsid |-> "", key |-> "", t0 |-> 0,
     expiry |-> 0, blob |-> EmptyBlob, err |-> "", log |-> << >>]

NoCall ==
    [op |-> "", p |-> "", s |-> "", sid |-> "", oldsid |-> "", key |-> "",
     err |-> "", exists |-> FALSE, val |-> "", t0 |-> 0, newExpiry |-> 0,
     log |-> << >>]

\* The locals of a call as it starts: its arguments and the time.
Call(op, s, sid, oldsid, key) ==
    [IdleLoc EXCEPT !.op = op, !.s = s, !.sid = sid, !.oldsid = oldsid,
                    !.key = key, !.t0 = now]

\* The statement just issued, added to the call's record.
Logged(l, stmt, err) == [l EXCEPT !.log = Append(@, [stmt |-> stmt, err |-> err])]

\* The handler returns.
Return(p, l, err, exists, val) ==
    /\ pc' = [pc EXCEPT ![p] = "idle"]
    /\ loc' = [loc EXCEPT ![p] = IdleLoc]
    /\ last' = [op |-> l.op, p |-> p, s |-> l.s, sid |-> l.sid,
                oldsid |-> l.oldsid, key |-> l.key, err |-> err,
                exists |-> exists, val |-> val, t0 |-> l.t0,
                newExpiry |-> l.expiry, log |-> l.log]

\* The handler goes on to its next statement.
Goto(p, label, l) ==
    /\ pc' = [pc EXCEPT ![p] = label]
    /\ loc' = [loc EXCEPT ![p] = l]
    /\ last' = NoCall

\* Slot p may take a new store: no other request is inside a call on it.
SlotFree(p) == \A q \in Procs \ {p} : pc[q] = "idle" \/ loc[q].s # p

\* Request p may call Release on store s: s exists and its owner is not
\* about to replace it.
Usable(p, s) ==
    /\ store[s].live
    /\ s = p \/ pc[s] = "idle" \/ loc[s].op \notin {"Read", "Regenerate"}

(* ------------------------------ the clock ----------------------------- *)

Tick(d) ==
    /\ now + d <= MaxTime
    /\ now' = now + d
    /\ last' = NoCall
    /\ UNCHANGED <<expire, table, store, pc, loc>>

(* ----------------------------- MysqlStore ----------------------------- *)

\* Set: s.data[key] = val; s.dirty = true
StoreSet(st, key, val) == [st EXCEPT !.data = MapSet(@, key, val), !.dirty = TRUE]

\* Get: return s.data[key]
StoreGet(st, key) == MapGet(st.data, key)

\* Delete: delete(s.data, key); s.dirty = true
StoreDelete(st, key) == [st EXCEPT !.data = MapDelete(@, key), !.dirty = TRUE]

StoreFlush_KeepsData(st) == [st EXCEPT !.dirty = TRUE]

\* Flush: s.data = make(map); s.dirty = true
StoreFlush(st) == [st EXCEPT !.data = EmptyMap, !.dirty = TRUE]

Set_SharesMap(p, s, key, val) ==
    /\ pc[p] = "idle" /\ store[s].live
    /\ store' = [q \in Procs |->
                   IF q = s THEN StoreSet(store[q], key, val)
                   ELSE IF store[q].live /\ store[q].sid = store[s].sid
                   THEN [store[q] EXCEPT !.data = MapSet(@, key, val)]
                   ELSE store[q]]
    /\ Return(p, Call("Set", s, store[s].sid, "", key), "", FALSE, val)
    /\ UNCHANGED <<now, expire, table>>

Set(p, s, key, val) ==
    /\ pc[p] = "idle" /\ store[s].live
    /\ store' = [store EXCEPT ![s] = StoreSet(@, key, val)]
    /\ Return(p, Call("Set", s, store[s].sid, "", key), "", FALSE, val)
    /\ UNCHANGED <<now, expire, table>>

Get(p, s, key) ==
    /\ pc[p] = "idle" /\ store[s].live
    /\ Return(p, Call("Get", s, store[s].sid, "", key), "", FALSE,
              StoreGet(store[s], key))
    /\ UNCHANGED <<now, expire, table, store>>

Delete(p, s, key) ==
    /\ pc[p] = "idle" /\ store[s].live
    /\ store' = [store EXCEPT ![s] = StoreDelete(@, key)]
    /\ Return(p, Call("Delete", s, store[s].sid, "", key), "", FALSE, "")
    /\ UNCHANGED <<now, expire, table>>

Flush(p, s) ==
    /\ pc[p] = "idle" /\ store[s].live
    /\ store' = [store EXCEPT ![s] = StoreFlush(@)]
    /\ Return(p, Call("Flush", s, store[s].sid, "", ""), "", FALSE, "")
    /\ UNCHANGED <<now, expire, table>>

ReleaseSkips_Strict(st, newExpiry) ==
    ~st.dirty /\ (st.expiry + GraceSeconds) > newExpiry

\* Release: !s.dirty && (s.expiry+60) >= newExpiry
ReleaseSkips(st, newExpiry) ==
    ~st.dirty /\ (st.expiry + GraceSeconds) >= newExpiry

\* Release, after Exec: s.dirty = false; s.expiry = newExpiry (whatever err is)
ReleaseDone(st, newExpiry, err) == [st EXCEPT !.dirty = FALSE, !.expiry = newExpiry]

\* Release up to the statement: the clock, the skip test and the encoding.
ReleaseCall(p, s) ==
    /\ pc[p] = "idle" /\ Usable(p, s)
    /\ LET l == [Call("Release", s, store[s].sid, "", "") EXCEPT !.expiry = now]
           e == EncodeGob(store[s].data)
       IN  IF ReleaseSkips(store[s], now) THEN Return(p, l, "", FALSE, "")
           ELSE IF e.err # "" THEN Return(p, l, e.err, FALSE, "")
           ELSE Goto(p, "Release_exec", [l EXCEPT !.blob = e.data])
    /\ UNCHANGED <<now, expire, table, store>>

\* Release's UPDATE.
ReleaseExec(p, fault) ==
    /\ pc[p] = "Release_exec"
    /\ LET l == loc[p]
           r == ExecUpdate(table, l.sid, l.blob, l.expiry, fault)
       IN  /\ table' = r.table
           /\ Goto(p, "Release_finish", [Logged(l, "update", r.err) EXCEPT !.err = r.err])
    /\ UNCHANGED <<now, expire, store>>

\* Release's two assignments and its return.
ReleaseFinish(p) ==
    /\ pc[p] = "Release_finish"
    /\ LET l == loc[p]
       IN  /\ store' = [store EXCEPT ![l.s] = ReleaseDone(@, l.expiry, l.err)]
           /\ Return(p, l, l.err, FALSE, "")
    /\ UNCHANGED <<now, expire, table>>

(* ---------------------------- MysqlProvider --------------------------- *)

ReadFinish_DiscardsCorrupt(p, l, data) ==
    LET d == IF Len(data) = 0 THEN [err |-> "", kv |-> EmptyMap] ELSE DecodeGob(data)
    IN  /\ store' = [store EXCEPT ![p] = NewMysqlStore(l.sid, d.kv, l.expiry)]
        /\ Return(p, l, "", FALSE, "")

ReadFinish_AlwaysDecodes(p, l, data) ==
    LET d == DecodeGob(data)
    IN  IF d.err # ""
        THEN /\ Return(p, l, d.err, FALSE, "")
             /\ UNCHANGED store
        ELSE /\ store' = [store EXCEPT ![p] = NewMysqlStore(l.sid, d.kv, l.expiry)]
             /\ Return(p, l, "", FALSE, "")

\* Read after the row is there: the empty blob is the empty map, anything
\* else goes through the decoder; then NewMysqlStore.
ReadFinish(p, l, data) ==
    LET d == IF Len(data) = 0 THEN [err |-> "", kv |-> EmptyMap] ELSE DecodeGob(data)
    IN  IF d.err # ""
        THEN /\ Return(p, l, d.err, FALSE, "")
             /\ UNCHANGED store
        ELSE /\ store' = [store EXCEPT ![p] = NewMysqlStore(l.sid, d.kv, l.expiry)]
             /\ Return(p, l, "", FALSE, "")

\* Read's SELECT: expiry := time.Now().Unix() and the Scan over it.
ReadSelectStep(p, l0, fault) ==
    LET r == SelectRow(table, l0.sid, fault)
        l == Logged(l0, "select", r.err)
    IN  /\ IF r.err = "norows"
           THEN /\ Goto(p, "Read_insert", [l EXCEPT !.expiry = now])
                /\ UNCHANGED store
           ELSE IF r.err # ""
           THEN /\ Return(p, l, r.err, FALSE, "")
                /\ UNCHANGED store
           ELSE ReadFinish(p, [l EXCEPT !.expiry = r.row.expiry], r.row.data)
        /\ UNCHANGED <<now, expire, table>>

\* Read(sid), called by a request.
ReadCall(p, sid, fault) ==
    /\ pc[p] = "idle" /\ SlotFree(p)
    /\ ReadSelectStep(p, Call("Read", p, sid, "", ""), fault)

\* Read(sid), called by Regenerate.
ReadSelect(p, fault) ==
    /\ pc[p] = "Read_select"
    /\ ReadSelectStep(p, loc[p], fault)

\* Read's INSERT after sql.ErrNoRows.
ReadInsert(p, fault) ==
    /\ pc[p] = "Read_insert"
    /\ LET r == ExecInsert(table, loc[p].sid, EmptyBlob, loc[p].expiry, fault)
           l == Logged(loc[p], "insert", r.err)
       IN  /\ table' = r.table
           /\ IF r.err # ""
              THEN /\ Return(p, l, r.err, FALSE, "")
                   /\ UNCHANGED store
              ELSE ReadFinish(p, l, EmptyBlob)
    /\ UNCHANGED <<now, expire>>

QueryExists_NoRowsIsError(t, sid, fault) ==
    LET r == SelectRow(t, sid, fault)
    IN  [exists |-> r.err = "", err |-> r.err]

\* queryExists: sql.ErrNoRows is (false, nil), any other error is the error.
QueryExists(t, sid, fault) ==
    LET r == SelectRow(t, sid, fault)
    IN  IF r.err # "" /\ r.err # "norows"
        THEN [exists |-> FALSE, err |-> r.err]
        ELSE [exists |-> r.err # "norows", err |-> ""]

\* Exist(sid): the first queryExists.
ExistCall(p, sid, fault) ==
    /\ pc[p] = "idle"
    /\ LET q == QueryExists(table, sid, fault)
           l == Logged(Call("Exist", "", sid, "", ""), "select", q.err)
       IN  IF q.err # "" THEN Goto(p, "Exist_retry", l)
           ELSE Return(p, l, "", q.exists, "")
    /\ UNCHANGED <<now, expire, table, store>>

\* Exist(sid): the second queryExists; a second error is logged, false returned.
ExistRetry(p, fault) ==
    /\ pc[p] = "Exist_retry"
    /\ LET q == QueryExists(table, loc[p].sid, fault)
           l == Logged(loc[p], "select", q.err)
       IN  IF q.err # "" THEN Return(p, l, "", FALSE, "logged")
           ELSE Return(p, l, "", q.exists, "")
    /\ UNCHANGED <<now, expire, table, store>>

\* Destory(sid)
Destory(p, sid, fault) ==
    /\ pc[p] = "idle"
    /\ LET r == ExecDelete(table, sid, fault)
       IN  /\ table' = r.table
           /\ Return(p, Logged(Call("Destory", "", sid, "", ""), "delete", r.err),
                     r.err, FALSE, "")
    /\ UNCHANGED <<now, expire, store>>

\* Regenerate after p.Exist(sid).
RegenAfterNew(p, l, exists) ==
    IF exists THEN Return(p, l, "exists", FALSE, "")
    ELSE Goto(p, "Regen_old", l)

RegenAfterOld_NoPlaceholder(p, l, exists) == Goto(p, "Regen_rename", l)

\* Regenerate after p.Exist(oldsid).
RegenAfterOld(p, l, exists) ==
    IF exists THEN Goto(p, "Regen_rename", l) ELSE Goto(p, "Regen_insert", l)

\* Regenerate(oldsid, sid): the first queryExists of p.Exist(sid).
RegenCall(p, oldsid, sid, fault) ==
    /\ pc[p] = "idle" /\ SlotFree(p) /\ oldsid # sid
    /\ LET q == QueryExists(table, sid, fault)
           l == Logged(Call("Regenerate", p, sid, oldsid, ""), "select", q.err)
       IN  IF q.err # "" THEN Goto(p, "Regen_new_retry", l)
           ELSE RegenAfterNew(p, l, q.exists)
    /\ UNCHANGED <<now, expire, table, store>>

\* The second queryExists of p.Exist(sid).
RegenNewRetry(p, fault) ==
    /\ pc[p] = "Regen_new_retry"
    /\ LET q == QueryExists(table, loc[p].sid, fault)
       IN  RegenAfterNew(p, Logged(loc[p], "select", q.err), q.exists)
    /\ UNCHANGED <<now, expire, table, store>>

\* The first queryExists of p.Exist(oldsid).
RegenOld(p, fault) ==
    /\ pc[p] = "Regen_old"
    /\ LET q == QueryExists(table, loc[p].oldsid, fault)
           l == Logged(loc[p], "select", q.err)
       IN  IF q.err # "" THEN Goto(p, "Regen_old_retry", l)
           ELSE RegenAfterOld(p, l, q.exists)
    /\ UNCHANGED <<now, expire, table, store>>

\* The second queryExists of p.Exist(oldsid).
RegenOldRetry(p, fault) ==
    /\ pc[p] = "Regen_old_retry"
    /\ LET q == QueryExists(table, loc[p].oldsid, fault)
       IN  RegenAfterOld(p, Logged(loc[p], "select", q.err), q.exists)
    /\ UNCHANGED <<now, expire, table, store>>

\* Regenerate's INSERT of a row for oldsid.
RegenInsert(p, fault) ==
    /\ pc[p] = "Regen_insert"
    /\ LET r == ExecInsert(table, loc[p].oldsid, EmptyBlob, now, fault)
           l == Logged(loc[p], "insert", r.err)
       IN  /\ table' = r.table
           /\ IF r.err # "" THEN Return(p, l, r.err, FALSE, "")
              ELSE Goto(p, "Regen_rename", l)
    /\ UNCHANGED <<now, expire, store>>

\* Regenerate's UPDATE of the key; then p.Read(sid).
RegenRename(p, fault) ==
    /\ pc[p] = "Regen_rename"
    /\ LET r == ExecRename(table, loc[p].oldsid, loc[p].sid, fault)
           l == Logged(loc[p], "rename", r.err)
       IN  /\ table' = r.table
           /\ IF r.err # "" THEN Return(p, l, r.err, FALSE, "")
              ELSE Goto(p, "Read_select", l)
    /\ UNCHANGED <<now, expire, store>>

\* GC(): the first DELETE.
GCCall(p, fault) ==
    /\ pc[p] = "idle"
    /\ LET r == ExecDeleteExpired(table, expire, now, fault)
           l == Logged(Call("GC", "", "", "", ""), "gc", r.err)
       IN  /\ table' = r.table
           /\ IF r.err # "" THEN Goto(p, "GC_retry", l)
              ELSE Return(p, l, "", FALSE, "")
    /\ UNCHANGED <<now, expire, store>>

\* GC(): the second DELETE; a second error is logged.
GCRetry(p, fault) ==
    /\ pc[p] = "GC_retry"
    /\ LET r == ExecDeleteExpired(table, expire, now, fault)
           l == Logged(loc[p], "gc", r.err)
       IN  /\ table' = r.table
           /\ Return(p, l, "", FALSE, IF r.err # "" THEN "logged" ELSE "")
    /\ UNCHANGED <<now, expire, store>>

(* --------------------------- specifications --------------------------- *)

\* Rows an earlier run of the program may have left: a session never
\* written back, one written back, and one whose bytes no longer decode.
InitBlobs == {EmptyBlob, EncodeGob([k \in {"a"} |-> "x"]).data, CorruptBlob}
InitTables ==
    {t \in [Sids -> {<< >>} \cup {<<Row(b, 0)>> : b \in InitBlobs}] :
        t["s3"] \in {<< >>, <<Row(EmptyBlob, 0)>>}}

NoPre == [table |-> EmptyTable, store |-> [p \in Procs |-> NoStore]]

\* A call on a store of ss that needs no statement.
StoreStep(p, ss, kvs) ==
    \/ \E s \in ss, kv \in kvs : Set(p, s, kv[1], kv[2])
    \/ \E s \in ss, k \in Keys : Get(p, s, k)
    \/ \E s \in ss, kv \in kvs : Delete(p, s, kv[1])
    \/ \E s \in ss : Flush(p, s)

\* A statement of Release, Read, Destory, Regenerate or GC; it fails when
\* its f is TRUE.
CallStep(p, ss, faults) ==
    \/ \E s \in ss : ReleaseCall(p, s)
    \/ \E f \in faults : ReleaseExec(p, f)
    \/ ReleaseFinish(p)
    \/ \E sid \in ArgSids, f \in faults : ReadCall(p, sid, f)
    \/ \E f \in faults : ReadSelect(p, f)
    \/ \E f \in faults : ReadInsert(p, f)
    \/ \E sid \in ArgSids, f \in faults : Destory(p, sid, f)
    \/ \E oldsid \in ArgSids, sid \in ArgSids, f \in faults : RegenCall(p, oldsid, sid, f)
    \/ \E f \in faults : RegenOld(p, f)
    \/ \E f \in faults : RegenInsert(p, f)
    \/ \E f \in faults : RegenRename(p, f)
    \/ \E f \in faults : GCCall(p, f)

\* Exist, and the second attempts that only a failed statement leads to.
RetryStep(p, faults) ==
    \/ \E sid \in ArgSids, f \in faults : ExistCall(p, sid, f)
    \/ \E f \in faults : ExistRetry(p, f)
    \/ \E f \in faults : RegenNewRetry(p, f)
    \/ \E f \in faults : RegenOldRetry(p, f)
    \/ \E f \in faults : GCRetry(p, f)

(* Spec: the requests of Procs run concurrently, statement by statement,  *)
(* each on the store it read, within one second of the clock and against  *)
(* a database whose statements do not fail for reasons of its own.  The   *)
(* rows the table starts with are 61 seconds old, so that GC removes them *)
(* and a Release finds the expiry of a store read from them stale.        *)

Init ==
    /\ now = 61
    /\ expire = 61
    /\ table \in {t \in InitTables :
                     /\ t["s3"] = << >>
                     /\ \A k \in Sids : t[k] \in {<< >>, <<Row(EmptyBlob, 0)>>}}
    /\ store = [p \in Procs |-> NoStore]
    /\ pc = [p \in Procs |-> "idle"]
    /\ loc = [p \in Procs |-> IdleLoc]
    /\ last = NoCall
    /\ pre = NoPre
    /\ oplog = [p \in Procs |-> << >>]

Next ==
    /\ \/ \E p \in Procs : Set(p, p, "a", "x")
       \/ \E p \in Procs : CallStep(p, {p}, {FALSE})
    /\ UNCHANGED <<pre, oplog>>

Spec == Init /\ [][Next]_vars

(* SeqSpec: one request, so one call at a time; the state each call       *)
(* started from is kept in pre until the step after its return.           *)

SeqProc == "p1"

SeqInit ==
    /\ now = 0
    /\ expire \in ExpireChoices
    /\ table \in InitTables
    /\ store = [p \in Procs |-> NoStore]
    /\ pc = [p \in Procs |-> "idle"]
    /\ loc = [p \in Procs |-> IdleLoc]
    /\ last = NoCall
    /\ pre = NoPre
    /\ oplog = [p \in Procs |-> << >>]

SeqNext ==
    /\ \/ /\ \/ StoreStep(SeqProc, {SeqProc}, SetInputs)
             \/ CallStep(SeqProc, {SeqProc}, BOOLEAN)
             \/ RetryStep(SeqProc, BOOLEAN)
          /\ pre' = IF pc[SeqProc] = "idle"
                    THEN [table |-> table, store |-> store] ELSE pre
       \/ /\ \E d \in TickSteps : Tick(d)
          /\ pre' = IF pc[SeqProc] = "idle" THEN NoPre ELSE pre
    /\ UNCHANGED oplog

SeqSpec == SeqInit /\ [][SeqNext]_vars

(* ReadSpec: two requests that Read a session, Set keys in the store they *)
(* got and Release it, one call at a time, against a database whose       *)
(* statements may fail.                                                   *)

\* No other request is inside a call.
Quiet(p) == \A q \in Procs \ {p} : pc[q] = "idle"

ReadInit ==
    /\ now = 0
    /\ expire = 61
    /\ table \in {t \in InitTables : t["s3"] = << >>}
    /\ store = [p \in Procs |-> NoStore]
    /\ pc = [p \in Procs |-> "idle"]
    /\ loc = [p \in Procs |-> IdleLoc]
    /\ last = NoCall
    /\ pre = NoPre
    /\ oplog = [p \in Procs |-> << >>]

ReadNext ==
    /\ \/ \E p \in Procs :
             /\ Quiet(p)
             /\ \/ \E sid \in ArgSids, f \in BOOLEAN : ReadCall(p, sid, f)
                \/ \E f \in BOOLEAN : ReadInsert(p, f)
                \/ \E kv \in SetInputs : Set(p, p, kv[1], kv[2])
                \/ ReleaseCall(p, p)
                \/ \E f \in BOOLEAN : ReleaseExec(p, f)
                \/ ReleaseFinish(p)
             /\ pre' = IF pc[p] = "idle"
                       THEN [table |-> table, store |-> store] ELSE pre
       \/ /\ \E d \in TickSteps : Tick(d)
          /\ pre' = IF \A p \in Procs : pc[p] = "idle" THEN NoPre ELSE pre
    /\ UNCHANGED oplog

ReadSpec == ReadInit /\ [][ReadNext]_vars

(* StoreSpec: one store, as NewMysqlStore returns it for any map, and the  *)
(* calls Set, Get, Delete and Flush on it; oplog keeps the pairs the      *)
(* store was created with ("Load") and then the mutating calls, in order. *)

StoreProc == "p1"
StoreValues == {"x", "y"}

RECURSIVE Loads(_, _)
Loads(m, ks) ==
    IF ks = << >> THEN << >>
    ELSE (IF Head(ks) \in DOMAIN m
          THEN <<[op |-> "Load", key |-> Head(ks), val |-> m[Head(ks)]]>>
          ELSE << >>) \o Loads(m, Tail(ks))

Calls(log) == SelectSeq(log, LAMBDA e : e.op # "Load")

StoreInit ==
    /\ now = 0
    /\ expire = 61
    /\ table = EmptyTable
    /\ \E kv \in UNION {[ks -> StoreValues] : ks \in SUBSET Keys} :
          /\ store = [p \in Procs |-> IF p = StoreProc
                                      THEN NewMysqlStore("s1", kv, 0) ELSE NoStore]
          /\ oplog = [p \in Procs |-> IF p = StoreProc THEN Loads(kv, KeyOrder) ELSE << >>]
    /\ pc = [p \in Procs |-> "idle"]
    /\ loc = [p \in Procs |-> IdleLoc]
    /\ last = NoCall
    /\ pre = NoPre

Record(op, key, val) ==
    /\ Len(Calls(oplog[StoreProc])) < MaxOps
    /\ oplog' = [oplog EXCEPT ![StoreProc] = Append(@, [op |-> op, key |-> key, val |-> val])]

StoreNext ==
    /\ \/ \E k \in Keys, v \in StoreValues :
             Set(StoreProc, StoreProc, k, v) /\ Record("Set", k, v)
       \/ \E k \in Keys : Delete(StoreProc, StoreProc, k) /\ Record("Delete", k, "")
       \/ Flush(StoreProc, StoreProc) /\ Record("Flush", "", "")
       \/ \E k \in Keys : Get(StoreProc, StoreProc, k) /\ UNCHANGED oplog
    /\ pre' = [table |-> table, store |-> store]

StoreSpec == StoreInit /\ [][StoreNext]_vars

(* ------------------- what a returned call is checked against --------- *)

\* The store the call was made on, as the call found it and as it left it.
St0 == pre.store[last.s]
St1 == store[last.s]

\* The statements the call issued, by name.
Stmts(log) == [i \in DOMAIN log |-> log[i].stmt]

\* A statement that failed for a reason of the database's own.
DbError(e) == e.err \notin {"", "norows"}
NoDbError(log) == \A i \in DOMAIN log : ~DbError(log[i])

(* ------------------------------ C1 ------------------------------------ *)

\* Release's skip condition, in the claim's words: dirty is false and
\* expiry + 60 >= now.
C1_Skip == ~St0.dirty /\ St0.expiry + 60 >= last.newExpiry

\* What a successful update of the row keyed by the store's id, carrying the
\* encoded data and expiry = now, makes of the table the call found.
C1_Updated ==
    [k \in Sids |->
        IF k = St0.sid
        THEN [i \in DOMAIN pre.table[k] |->
                 [data |-> EncodeGob(St0.data).data, expiry |-> last.newExpiry]]
        ELSE pre.table[k]]

\* The write-back: exactly one update; when it succeeds the row carries the
\* encoded data and expiry = now and the store has dirty = FALSE and
\* expiry = now; when it fails the table is as before.
C1_WritesBack ==
    /\ Stmts(last.log) = <<"update">>
    /\ last.err = last.log[1].err
    /\ last.log[1].err = "" =>
          /\ table = C1_Updated
          /\ ~St1.dirty /\ St1.expiry = last.newExpiry
    /\ last.log[1].err # "" => table = pre.table

\* No statement, and the store and the table as they were.
C1_NoWrite == last.log = << >> /\ St1 = St0 /\ table = pre.table

\* C1 as stated: Release performs no database write and leaves expiry and
\* dirty unchanged exactly when dirty is false and expiry + 60 >= now; in
\* every other case it issues exactly one update.
C1_AsStated ==
    last.op = "Release" =>
        /\ C1_Skip <=> (last.log = << >> /\ St1.expiry = St0.expiry
                                         /\ St1.dirty = St0.dirty)
        /\ ~C1_Skip => C1_WritesBack

\* C1 amended: Release performs no database write and leaves the store
\* unchanged when dirty is false and expiry + 60 >= now, and also when the
\* write is due but the data cannot be encoded (it then returns the encode
\* error); in every other case it issues exactly one update of the row
\* keyed by the store's id carrying the encoded data and expiry = now, and
\* after a successful update the store has dirty = false and expiry = now.
C1_SkipRule ==
    last.op = "Release" =>
        /\ C1_Skip => C1_NoWrite /\ last.err = ""
        /\ ~C1_Skip /\ EncodeGob(St0.data).err # "" =>
              C1_NoWrite /\ last.err = EncodeGob(St0.data).err
        /\ ~C1_Skip /\ EncodeGob(St0.data).err = "" => C1_WritesBack

\* A Release of a clean store whose expiry is 61 seconds old: it writes.
C1_Witness ==
    /\ last.op = "Release" /\ ~St0.dirty
    /\ St0.expiry + 61 = last.newExpiry
    /\ last.err = "" /\ Len(last.log) = 1
    /\ table[St0.sid] # << >> /\ table # pre.table

(* ------------------------------ C2 ------------------------------------ *)

\* C2 as stated: when the encode step or the row update returns an error,
\* Release returns it without retrying and leaves dirty and expiry as they
\* were before the call.
C2_OnlyOnSuccess ==
    last.op = "Release" /\ last.err # "" =>
        /\ Len(last.log) <= 1
        /\ St1.dirty = St0.dirty /\ St1.expiry = St0.expiry

(* ------------------------------ C3 ------------------------------------ *)

\* C3: a GC call whose delete statement succeeds removes exactly the rows
\* with expiry + expireSeconds <= now and leaves every other row (id, blob
\* and expiry) untouched; with expireSeconds = 3600 a row with expiry =
\* now-4000 is expired and a row with expiry = now-100 is not.
C3_GCExact ==
    /\ last.op = "GC" /\ last.log[Len(last.log)].err = "" =>
          \A k \in Sids :
             table[k] = SelectSeq(pre.table[k],
                                  LAMBDA r : ~(r.expiry + expire <= now))
    /\ \A n \in {4000, 5000} :
          /\ Expired(Row(EmptyBlob, n - 4000), 3600, n)
          /\ ~Expired(Row(EmptyBlob, n - 100), 3600, n)

\* A GC that removed a row whose expiry + expireSeconds is exactly now and
\* kept a younger one.
C3_Witness ==
    /\ last.op = "GC" /\ last.log[Len(last.log)].err = ""
    /\ \E k1 \in Sids, k2 \in Sids :
          /\ pre.table[k1] # << >> /\ table[k1] = << >>
          /\ pre.table[k1][1].expiry + expire = now
          /\ pre.table[k2] # << >> /\ table[k2] = pre.table[k2]

(* ------------------------------ C4 ------------------------------------ *)

\* C4 as stated: whenever newID already has a row, Regenerate returns an
\* 'already exists' error and no store, and the table is unchanged.
C4_ConflictNoMutation ==
    last.op = "Regenerate" /\ pre.table[last.sid] # << >> =>
        /\ last.err = "exists"
        /\ table = pre.table
        /\ store = pre.store

(* ------------------------------ C5 ------------------------------------ *)

\* The blob is one Read turns into a map: the empty blob or a valid encoding.
C5_Decodable(d) == d = EmptyBlob \/ DecodeGob(d).err = ""

\* Regenerate found a row for oldID and none for newID, and no statement
\* failed.
C5_Case ==
    /\ last.op = "Regenerate"
    /\ Len(pre.table[last.oldsid]) = 1 /\ pre.table[last.sid] = << >>
    /\ NoDbError(last.log)

\* The row is renamed and nothing else in the table changes.
C5_Renamed ==
    table = [pre.table EXCEPT ![last.oldsid] = << >>,
                              ![last.sid] = pre.table[last.oldsid]]

\* The store for newID holding the decoding of the row's blob.
C5_Returned ==
    LET r == pre.table[last.oldsid][1]
    IN  /\ last.err = ""
        /\ store[last.p] =
              [live |-> TRUE, sid |-> last.sid, expiry |-> r.expiry, dirty |-> FALSE,
               data |-> IF r.data = EmptyBlob THEN EmptyMap ELSE DecodeGob(r.data).kv]

\* C5 as stated: when oldID has a row with blob d and expiry e, newID has
\* none and no database error occurs, Regenerate ends with no row for
\* oldID, one row (d, e) for newID, all other rows untouched, and returns
\* the store (newID, decoding of d, dirty = false).
C5_AsStated == C5_Case => C5_Renamed /\ C5_Returned

\* C5 amended: the same, for a blob d that can be decoded; when d cannot be
\* decoded the row is renamed all the same, and Regenerate returns the
\* decode error and no store.
C5_PreservesSession ==
    C5_Case =>
        /\ C5_Renamed
        /\ IF C5_Decodable(pre.table[last.oldsid][1].data)
           THEN C5_Returned
           ELSE last.err = "decode" /\ store = pre.store

\* A Regenerate that moved a row holding data to the new id.
C5_Witness ==
    /\ C5_Case /\ last.err = ""
    /\ pre.table[last.oldsid][1].data # EmptyBlob
    /\ store[last.p].data # EmptyMap
    /\ table[last.sid] = pre.table[last.oldsid]

(* ------------------------------ C6 ------------------------------------ *)

C7_Case == last.op = "Read" /\ pre.table[last.sid] = << >>

\* Exactly one row (id, empty blob, the time Read took) is inserted, and the
\* store returned is (id, empty map, that time, dirty = FALSE).
C7_Created ==
    /\ last.err = ""
    /\ last.log = <<[stmt |-> "select", err |-> "norows"],
                    [stmt |-> "insert", err |-> ""]>>
    /\ table = [pre.table EXCEPT ![last.sid] =
                   <<[data |-> EmptyBlob, expiry |-> last.t0]>>]
    /\ store[last.p] = [live |-> TRUE, sid |-> last.sid, data |-> EmptyMap,
                        expiry |-> last.t0, dirty |-> FALSE]

\* A Read that finds the row still holding the empty blob (no write-back
\* yet) returns a store with an empty map, whatever the other stores hold,
\* and leaves those as they are.
C7_SecondRead ==
    /\ last.op = "Read" /\ last.err = ""
    /\ table[last.sid][1].data = EmptyBlob
    => /\ store[last.p].data = EmptyMap /\ ~store[last.p].dirty
       /\ store[last.p].sid = last.sid
       /\ table = pre.table \/ C7_Case
       /\ \A q \in Procs \ {last.p} : store[q] = pre.store[q]

\* C7 as stated: Read(id) when no row for id exists inserts exactly one row
\* and returns the store; a second Read before any write-back observes an
\* empty map.
C7_AsStated ==
    /\ C7_Case => C7_Created
    /\ C7_SecondRead

\* C7 amended: the same when the SELECT and the INSERT succeed; when either
\* fails, Read returns the error and no store, and no row is inserted.
C7_ReadCreatesRow ==
    /\ C7_Case /\ NoDbError(last.log) => C7_Created
    /\ C7_Case /\ ~NoDbError(last.log) =>
          last.err = "db" /\ table = pre.table /\ store = pre.store
    /\ C7_SecondRead

\* A second Read of an id whose first store has been Set but not written
\* back: the new store is empty, the first one keeps its data.
C7_Witness ==
    /\ last.op = "Read" /\ last.err = "" /\ table = pre.table
    /\ table[last.sid][1].data = EmptyBlob
    /\ store[last.p].data = EmptyMap
    /\ \E q \in Procs \ {last.p} :
          /\ store[q].live /\ store[q].sid = last.sid
          /\ store[q].dirty /\ store[q].data # EmptyMap
          /\ store[q].expiry = table[last.sid][1].expiry

(* ------------------------------ C8 ------------------------------------ *)

\* What the calls recorded in log leave under key k: the value of the last
\* Set(k, v) that no Delete(k) and no Flush follows; a pair the store was
\* created with counts as such a Set when loaded is TRUE.
RECURSIVE Recent(_, _, _)
Recent(log, k, loaded) ==
    IF log = << >> THEN Nil
    ELSE LET e == log[Len(log)]
             rest == SubSeq(log, 1, Len(log) - 1)
         IN  IF e.op = "Flush" THEN Nil
             ELSE IF e.op = "Delete" /\ e.key = k THEN Nil
             ELSE IF e.op = "Set" /\ e.key = k THEN e.val
             ELSE IF e.op = "Load" /\ e.key = k /\ loaded THEN e.val
             ELSE Recent(rest, k, loaded)

\* The parts of C8 that do not depend on how the store started: Set, Delete
\* (also of an absent key) and Flush leave dirty = TRUE, Get changes neither
\* data nor dirty, and dirty is FALSE until the first of them.
C8_Flags ==
    /\ last.op \in {"Set", "Delete", "Flush"} => store[last.s].dirty
    /\ last.op = "Get" => store = pre.store
    /\ Calls(oplog[StoreProc]) = << >> => ~store[StoreProc].dirty

\* C8 as stated: Get(k) returns the value of the most recent Set(k, v) on
\* this store that was not followed by Delete(k) or Flush, and the "not
\* present" sentinel otherwise.
C8_AsStated ==
    /\ C8_Flags
    /\ last.op = "Get" => last.val = Recent(oplog[last.s], last.key, FALSE)

\* C8 amended: the store behaves as a map with a dirty flag, starting from
\* the map it was created with: Get(k) returns the value of the most recent
\* Set(k, v) not followed by Delete(k) or Flush; with no Set, Delete(k) or
\* Flush since the store was created, the value that map held under k; and
\* the sentinel otherwise.  Set, Delete and Flush leave dirty = TRUE; Get
\* changes neither data nor dirty.
C8_MapWithDirtyFlag ==
    /\ C8_Flags
    /\ last.op = "Get" => last.val = Recent(oplog[last.s], last.key, TRUE)
    /\ \A k \in Keys :
          StoreGet(store[StoreProc], k) = Recent(oplog[StoreProc], k, TRUE)

\* A Get that returns the sentinel for a key that was Set and then removed
\* by a Delete of it or a Flush; and a Delete of an absent key before it.
C8_Witness ==
    /\ last.op = "Get" /\ last.val = Nil
    /\ \E i \in DOMAIN oplog[StoreProc] :
          /\ oplog[StoreProc][i].op = "Set"
          /\ oplog[StoreProc][i].key = last.key
    /\ store[StoreProc].dirty

(* ------------------------------ C9 ------------------------------------ *)

\* C9: Exist and GC re-issue their query exactly once after a query error
\* and never more; if the second attempt fails too, Exist returns false and
\* GC returns normally, neither propagating the error; for Exist "no rows"
\* is a definitive false without retry, and when a query succeeds Exist
\* returns true iff the row exists.
C9_SingleRetry ==
    /\ last.op = "Exist" =>
          /\ Len(last.log) \in {1, 2}
          /\ \A i \in DOMAIN last.log : last.log[i].stmt = "select"
          /\ Len(last.log) = 2 <=> last.log[1].err = "db"
          /\ last.err = ""
          /\ table = pre.table
          /\ IF last.log[Len(last.log)].err = "db"
             THEN ~last.exists
             ELSE last.exists <=> table[last.sid] # << >>
    /\ last.op = "GC" =>
          /\ Len(last.log) \in {1, 2}
          /\ \A i \in DOMAIN last.log : last.log[i].stmt = "gc"
          /\ Len(last.log) = 2 <=> last.log[1].err = "db"
          /\ last.err = ""
          /\ last.log[Len(last.log)].err = "db" => table = pre.table

\* An Exist whose two queries both failed: it answers false for a row that
\* is there.
C9_Witness ==
    /\ last.op = "Exist" /\ Len(last.log) = 2
    /\ last.log[2].err = "db"
    /\ table[last.sid] # << >> /\ ~last.exists

(* ------------------------------ C10 ----------------------------------- *)

\* C10: in every reachable state, under any interleaving of the statements
\* of Read, Regenerate, Destory, GC and Release, the table holds at most
\* one row per session identifier.
C10_OneRowPerId == \A k \in Sids : Len(table[k]) <= 1

\* Two Reads of the same absent id ran their SELECTs before either INSERT:
\* the second INSERT was refused and the id has one row.
C10_Witness ==
    /\ last.op = "Read" /\ last.err = "duplicate"
    /\ Len(table[last.sid]) = 1

(* ------------------------------ C11 ----------------------------------- *)

\* A row for k came into being, or went away, during the call that returned.
C11_Appeared(k) == pre.table[k] = << >> /\ table[k] # << >>
C11_Vanished(k) == pre.table[k] # << >> /\ table[k] = << >>

\* Regenerate moved the row of oldID to newID: the identifier changed, the
\* row persists.
C11_Renamed ==
    /\ last.op = "Regenerate"
    /\ pre.table[last.oldsid] # << >> /\ table[last.oldsid] = << >>
    /\ table[last.sid] = pre.table[last.oldsid]

\* Regenerate inserted a placeholder row for an oldID that had none; the row
\* is under newID when the rename followed, under oldID when it did not.
C11_Placeholder(k) ==
    /\ last.op = "Regenerate" /\ pre.table[last.oldsid] = << >>
    /\ k \in {last.oldsid, last.sid}
    /\ table[k][1].data = EmptyBlob

\* The transitions the claim lists, with those in byRegenerate added to the
\* ways a row may appear.
C11_Transitions(byRegenerate(_)) ==
    last.op # "" =>
        /\ \A k \in Sids :
              /\ C11_Appeared(k) =>
                    \/ last.op \in {"Read", "Set"} /\ k = last.sid
                    \/ C11_Renamed /\ k = last.sid
                    \/ byRegenerate(k)
              /\ C11_Vanished(k) =>
                    \/ last.op = "Destory" /\ k = last.sid
                    \/ last.op = "GC" /\ pre.table[k][1].expiry + expire <= now
                    \/ C11_Renamed /\ k = last.oldsid
        /\ last.op \in {"Set", "Get", "Delete", "Flush"} => table = pre.table
        /\ last.op \in {"Release", "Exist"} =>
              \A k \in Sids : ~C11_Appeared(k) /\ ~C11_Vanished(k)

C11_Never(k) == FALSE

\* C11 as stated: a row changes presence only from absent to active on the
\* first Read or Set for that id, from active to renamed by Regenerate, and
\* from active to absent by Destory or by a GC sweep once it is expired;
\* Set, Get, Delete and Release keep an active row active.
C11_AsStated == C11_Transitions(C11_Never)

\* C11 amended: the same transitions, and one more: absent to active by a
\* Regenerate whose oldID had no row, which inserts a placeholder row for
\* oldID and renames it to newID (the row stays under oldID when the rename
\* does not follow).
C11_RowLifecycle == C11_Transitions(C11_Placeholder)

\* A Regenerate between two ids without rows that left one row more than it
\* found.
C11_Witness ==
    /\ last.op = "Regenerate" /\ last.err = ""
    /\ \A k \in Sids : k # last.sid => table[k] = pre.table[k]
    /\ C11_Appeared(last.sid) /\ pre.table[last.oldsid] = << >>

(* ------------------------------ C12 ----------------------------------- *)

(* RaceSpec: two requests Read the same session, each into a store of its  *)
(* own, change it and Release it, their statements interleaved in any      *)
(* order while the clock runs; pre is the state before the last step.      *)

RaceSid == "s1"
\* Each request sets a key of its own, so that the two maps differ.
RaceInputs(p) == IF p = "p1" THEN {<<"a", "x">>} ELSE {<<"b", "y">>}

RaceInit ==
    /\ now = 0
    /\ expire = 61
    /\ table = [EmptyTable EXCEPT ![RaceSid] = <<Row(EmptyBlob, 0)>>]
    /\ store = [p \in Procs |-> NoStore]
    /\ pc = [p \in Procs |-> "idle"]
    /\ loc = [p \in Procs |-> IdleLoc]
    /\ last = NoCall
    /\ pre = NoPre
    /\ oplog = [p \in Procs |-> << >>]

RaceNext ==
    /\ \/ \E p \in Procs : ReadCall(p, RaceSid, FALSE)
       \/ \E p \in Procs : StoreStep(p, {p}, RaceInputs(p))
       \/ \E p \in Procs : ReleaseCall(p, p)
       \/ \E p \in Procs : ReleaseExec(p, FALSE)
       \/ \E p \in Procs : ReleaseFinish(p)
       \/ \E d \in TickSteps : Tick(d)
    /\ pre' = [table |-> table, store |-> store]
    /\ UNCHANGED oplog

RaceSpec == RaceInit /\ [][RaceNext]_vars

\* Request p executes the UPDATE of its Release in this step.
C12_Updates(p) == pc[p] = "Release_exec" /\ pc'[p] = "Release_finish"

\* C12: when two stores obtained by overlapping Reads of the same id are
\* both mutated and both Released while the row exists, every update
\* replaces the row by the encoding of the complete map of the store it
\* releases and by that Release's timestamp, and nothing else changes the
\* row: the row is always that of the update that executed last, never a
\* merge of the two maps.
C12_LastWriteWins ==
    [][/\ \A p \in Procs :
             C12_Updates(p) /\ loc'[p].err = "" /\ table[loc[p].sid] # << >> =>
                table' = [table EXCEPT ![loc[p].sid] =
                             <<Row(EncodeGob(store[p].data).data, loc[p].expiry)>>]
       /\ table' # table => \E p \in Procs : C12_Updates(p)]_vars

\* Both stores, holding different maps, have been written back; the row is
\* the encoding of the map of the Release that returned last, and holds
\* nothing of the other.
C12_Witness ==
    /\ \A p \in Procs : store[p].live /\ store[p].sid = RaceSid /\ ~store[p].dirty
    /\ store["p1"].data = [k \in {"a"} |-> "x"]
    /\ store["p2"].data = [k \in {"b"} |-> "y"]
    /\ last.op = "Release" /\ Len(last.log) = 1 /\ last.err = ""
    /\ table[RaceSid] = <<Row(EncodeGob(store[last.p].data).data,
                              store[last.p].expiry)>>

(* ------------------------------ C13 ----------------------------------- *)

\* The map Read makes of the row it selected.
C13_Snapshot(row) ==
    IF row.data = EmptyBlob THEN EmptyMap ELSE DecodeGob(row.data).kv

\* C13: every Read yields a store with its own map, decoded from that
\* call's snapshot of the row, and leaves every other store as it was; a
\* Set, Delete or Flush on one store changes neither the data, dirty flag
\* or expiry of any other store (also not of another store for the same id)
\* nor anything in the table.
C13_StoreIsolation ==
    /\ last.op \in {"Set", "Delete", "Flush"} =>
          /\ table = pre.table
          /\ \A q \in Procs \ {last.s} : store[q] = pre.store[q]
    /\ last.op = "Read" /\ last.err = "" =>
          /\ store[last.p] =
                NewMysqlStore(last.sid, C13_Snapshot(pre.table[last.sid][1]),
                              pre.table[last.sid][1].expiry)
          /\ \A q \in Procs \ {last.p} : store[q] = pre.store[q]

\* A Set on one of two stores for the same id: the other store, read from
\* the same row, still holds the map it was read with.
C13_Witness ==
    /\ last.op = "Set" /\ last.p = "p2"
    /\ store["p1"].live /\ store["p1"].sid = store["p2"].sid
    /\ store["p1"].data = EmptyMap /\ ~store["p1"].dirty
    /\ store["p2"].data = [k \in {"b"} |-> "y"] /\ store["p2"].dirty
    /\ table[RaceSid][1].data = EmptyBlob

(* ------------------------------ C14 ----------------------------------- *)

\* The call stopped at statement i and returned its error and no store.
C14_StopsAt(i) ==
    /\ Len(last.log) = i
    /\ last.err = last.log[i].err
    /\ store = pre.store

\* C14 as stated: if any database step of Regenerate fails (the existence
\* check of newID, the existence check of oldID, the placeholder insert, the
\* rename update, or the final Read), Regenerate stops at that step,
\* performs no later step, and returns that error with no store.  An
\* existence check has failed when its query and the one retry both failed.
C14_PropagatesErrors ==
    last.op = "Regenerate" =>
        LET log == last.log
            \* where the existence check of oldID starts
            o == IF DbError(log[1]) THEN 3 ELSE 2
        IN  /\ Len(log) >= 2 /\ DbError(log[1]) /\ DbError(log[2]) => C14_StopsAt(2)
            /\ Len(log) > o /\ DbError(log[o]) /\ DbError(log[o + 1]) =>
                  C14_StopsAt(o + 1)
            /\ \A i \in DOMAIN log :
                  /\ DbError(log[i])
                  /\ \/ log[i].stmt \in {"insert", "rename"}
                     \/ i > 1 /\ log[i - 1].stmt = "rename"
                  => C14_StopsAt(i)

(* ------------------------------ C15 ----------------------------------- *)

\* A Read of an id that has a row.
C15_Case == last.op = "Read" /\ Len(pre.table[last.sid]) = 1

\* C15: when the row for id exists with a non-empty blob that cannot be
\* decoded, Read(id) returns an error and no store, and the row (blob and
\* expiry) is left exactly as it was; a row with an empty blob never
\* reaches the decoder (which rejects the empty blob) and yields an empty
\* map.
C15_UndecodableFails ==
    C15_Case =>
        LET row == pre.table[last.sid][1]
        IN  /\ row.data # EmptyBlob /\ DecodeGob(row.data).err # "" =>
                  /\ last.err # ""
                  /\ NoDbError(last.log) => last.err = DecodeGob(row.data).err
                  /\ Stmts(last.log) = <<"select">>
                  /\ store = pre.store
                  /\ table = pre.table
            /\ row.data = EmptyBlob /\ NoDbError(last.log) =>
                  /\ DecodeGob(row.data).err # ""
                  /\ last.err = ""
                  /\ store[last.p] = NewMysqlStore(last.sid, EmptyMap, row.expiry)
                  /\ table = pre.table

\* A Read that the decoder failed, by a request that holds a store from an
\* earlier Read: it keeps that store, and the row is still there.
C15_Witness ==
    /\ C15_Case /\ last.err = "decode"
    /\ table[last.sid] = <<Row(CorruptBlob, 0)>>
    /\ store[last.p].live /\ store[last.p].sid # last.sid

(* ------------------------------ C16 ----------------------------------- *)

(* SharedSpec: the requests of Procs are goroutines that share one store,  *)
(* the one Read returned for a row that had no data yet, and call Set,     *)
(* Get, Delete, Flush and Release on it; Release takes no lock, so its     *)
(* steps interleave with the calls of the other goroutine.                 *)

SharedStore == "p1"
SharedInputs == {<<"a", "x">>, <<"b", "y">>}

SharedInit ==
    /\ now = 0
    /\ expire = 61
    /\ table = [EmptyTable EXCEPT !["s1"] = <<Row(EmptyBlob, 0)>>]
    /\ store = [p \in Procs |-> IF p = SharedStore
                                THEN NewMysqlStore("s1", EmptyMap, 0) ELSE NoStore]
    /\ pc = [p \in Procs |-> "idle"]
    /\ loc = [p \in Procs |-> IdleLoc]
    /\ last = NoCall
    /\ pre = NoPre
    /\ oplog = [p \in Procs |-> << >>]

SharedNext ==
    /\ \/ \E p \in Procs : StoreStep(p, {SharedStore}, SharedInputs)
       \/ \E p \in Procs : ReleaseCall(p, SharedStore)
       \/ \E p \in Procs : ReleaseExec(p, FALSE)
       \/ \E p \in Procs : ReleaseFinish(p)
    /\ pre' = [table |-> table, store |-> store]
    /\ UNCHANGED oplog

SharedSpec == SharedInit /\ [][SharedNext]_vars

\* C16 as stated: in every interleaving of Set, Delete, Flush and Release
\* on one shared store, dirty is true iff data has been mutated since load
\* or the last write-back: once no Release is under way, a store with
\* dirty = false holds exactly the map the persisted blob encodes.
C16_DirtyTracksDivergence ==
    /\ \A p \in Procs : pc[p] = "idle"
    /\ ~store[SharedStore].dirty
    => /\ Len(table[store[SharedStore].sid]) = 1
       /\ C13_Snapshot(table[store[SharedStore].sid][1]) = store[SharedStore].data

(* ------------------------------ C17 ----------------------------------- *)

\* C17 as stated: immediately after any Release at time now that returns
\* without error on a store whose row exists, the row's persisted expiry is
\* at least now - 60, for any number of stores for that id and any
\* interleaving of their Reads and Releases.
C17_BoundedStaleness ==
    /\ last.op = "Release" /\ last.err = ""
    /\ table[last.sid] # << >>
    => table[last.sid][1].expiry >= last.newExpiry - 60

(* ------------------------------ C18 ----------------------------------- *)

\* C18 as stated: whenever Release on a dirty store returns nil, the table
\* contains a row for the store's id whose blob is the encoding of the
\* store's data, also when the row was removed by Destory or GC, or renamed
\* by Regenerate, between the store's Read and its Release.
C18_ReleaseIsDurable ==
    last.op = "Release" /\ St0.dirty /\ last.err = "" =>
        /\ Len(table[St0.sid]) = 1
        /\ table[St0.sid][1].data = EncodeGob(St0.data).data

(* ------------------------------ C19 ----------------------------------- *)

\* C19 as stated: when two requests call Read(id) concurrently for an id
\* that has no row and the database is healthy, both calls return a store
\* with an empty map in every interleaving of their select and insert
\* statements, and exactly one row for id exists afterwards: a Read that
\* found no row and went on to insert one returns its store.
C19_FirstReadsSucceed ==
    last.op = "Read" /\ Stmts(last.log) = <<"select", "insert">> =>
        /\ last.err = ""
        /\ store[last.p].live /\ store[last.p].sid = last.sid
        /\ store[last.p].data = EmptyMap
        /\ Len(table[last.sid]) = 1

(* ------------------------------ C20 ----------------------------------- *)

\* C20 as stated: whenever Regenerate(oldID, newID) returns an error, the
\* table is left as it was before the call; in particular no placeholder
\* row for a previously absent oldID remains.
C20_AllOrNothing ==
    last.op = "Regenerate" /\ last.err # "" =>
        /\ table = pre.table
        /\ pre.table[last.oldsid] = << >> => table[last.oldsid] = << >>

====
